---------------------------- MODULE Spec2Model ----------------------------
(***************************************************************************)
(* Model of check_once.py: one poll of the DTEK outage page per run of     *)
(* main(), the state kept in state.json between runs, and the Telegram     *)
(* channel (sendMessage / editMessageText).                                *)
(*                                                                         *)
(* A run is a sequence of steps cut at the calls whose outcome the program *)
(* does not control: each fetch attempt, the edit call, the send call.     *)
(* Texts are modelled by the pieces the code looks at: a page body is the  *)
(* record of the lines the regular expressions can match, an error message *)
(* is the sequence of its words, a Telegram text is the sequence of its    *)
(* lines.  Python None is the string "None"; a missing message_id is 0     *)
(* (falsy in "if last_message_id:" exactly like None).                     *)
(* "updated_at" and the "Perevireno" clock value are not modelled: nothing *)
(* reads them.                                                             *)
(***************************************************************************)
EXTENDS Integers, Sequences, FiniteSets, TLC

\* ------------------------------------------------------------------ bounds
\* Highest message id the Telegram channel hands out; no run starts once the
\* channel has none left.
MaxMsgs == 3

\* ---------------------------------------------------------------- constants
None == "None"
Absent == "<no such line>"
NoMessageId == 0
MaxAttempts == 3

Addresses == {"m. Odesa, vul. Krasnova, 1", "m. Odesa, vul. Krasnova, 2"}

\* DISCLAIMER_MARKERS
DISCLAIMER_MARKERS ==
    { "Yakshcho v danyi moment u vas vidsutnie svitlo",
      "Prosymo pereviryty informatsiiu cherez 15 khvylyn" }

\* Disclaimer lines as the page renders them; "~" stands for U+00A0.
DisclaimerLines ==
    { Absent,
      "Yakshcho~v danyi moment u vas vidsutnie svitlo",
      "Prosymo pereviryty informatsiiu cherez 15 khvylyn" }

\* text.replace(U+00A0, " ")
ReplaceNbsp(t) ==
    IF t = "Yakshcho~v danyi moment u vas vidsutnie svitlo"
    THEN "Yakshcho v danyi moment u vas vidsutnie svitlo"
    ELSE t

\* The anti-automation texts a body may carry, as rendered.
MarkerTexts == { "Captcha", "Access Denied", "FORBIDDEN", "Request unsuccessful", "Incapsula" }

\* str.lower() on the words the model uses.
Lower(w) ==
    CASE w = "Captcha" -> "captcha"
      [] w = "Access Denied" -> "access denied"
      [] w = "FORBIDDEN" -> "forbidden"
      [] w = "Forbidden" -> "forbidden"
      [] w = "Request unsuccessful" -> "request unsuccessful"
      [] w = "Incapsula" -> "incapsula"
      [] w = "Antibot" -> "antibot"
      [] w = "Timeout" -> "timeout"
      [] w = "Empty" -> "empty"
      [] w = "Read" -> "read"
      [] w = "DTEK" -> "dtek"
      [] w = "Telegram" -> "telegram"
      [] w = "API" -> "api"
      [] w = "Bad" -> "bad"
      [] w = "Request" -> "request"
      [] w = "Client" -> "client"
      [] w = "Error" -> "error"
      [] w = "Page.goto" -> "page.goto"
      [] w = "ERR_CONNECTION_RESET" -> "err_connection_reset"
      [] OTHER -> w

\* ------------------------------------------------------------- page bodies
StatusLines == { Absent, "Za vashoiu adresoiu vidsutnia elektroenerhiia" }
ReasonLines == { Absent, "Avariini remonty" }
StartTexts == { Absent, "14:30 05.03.2024" }
RestoreTexts == { Absent, " ", "utochniuietsia", "18:00 05.03.2024", "do 19:00 05.03.2024" }

CleanBodies ==
    [ marker : {Absent}, disclaimer : DisclaimerLines, status : StatusLines,
      reason : ReasonLines, start : StartTexts, restore : RestoreTexts ]

BlockedBodies ==
    [ marker : MarkerTexts, disclaimer : {Absent}, status : {Absent},
      reason : {Absent}, start : {Absent}, restore : {Absent} ]

Bodies == CleanBodies \cup BlockedBodies

NoBody ==
    [ marker |-> Absent, disclaimer |-> Absent, status |-> Absent,
      reason |-> Absent, start |-> Absent, restore |-> Absent ]

\* _parse_dt_from_ua followed by isoformat(sep=" "): strptime "%H:%M %d.%m.%Y"
_parse_dt_from_ua(text) ==
    CASE text = "14:30 05.03.2024" -> "2024-03-05 14:30:00"
      [] text = "18:00 05.03.2024" -> "2024-03-05 18:00:00"
      [] text = "19:00 05.03.2024" -> "2024-03-05 19:00:00"
      [] OTHER -> None

\* m.group(1).strip() of "Oriientovnyi chas vidnovlennia elektroenerhii - (.+)"
RestoreRawOf(text) ==
    CASE text = Absent -> None
      [] text = " " -> ""
      [] OTHER -> text

\* re.search(r"([0-2]\d:[0-5]\d)\s+(\d{2}\.\d{2}\.\d{4})", restore_raw)
EmbeddedDt(raw) ==
    CASE raw = "18:00 05.03.2024" -> "18:00 05.03.2024"
      [] raw = "do 19:00 05.03.2024" -> "19:00 05.03.2024"
      [] OTHER -> Absent

\* re.search(r"Chas pochatku - ([0-2]\d:[0-5]\d \d{2}\.\d{2}\.\d{4})", page_text)
StartMatch(body) == body.start

parse_outage_from_page_text(body, addr) ==
    LET raw == RestoreRawOf(body.restore)
        block == << body.status, body.reason, body.start, body.restore >>
    IN  [ address |-> addr,
          status_line |-> IF body.status = Absent THEN None ELSE body.status,
          reason |-> IF body.reason = Absent THEN None ELSE body.reason,
          start_dt |-> IF StartMatch(body) = Absent THEN None
                       ELSE _parse_dt_from_ua(StartMatch(body)),
          restore_dt |-> IF raw = None \/ EmbeddedDt(raw) = Absent THEN None
                         ELSE _parse_dt_from_ua(EmbeddedDt(raw)),
          restore_raw |-> raw,
          raw_block |-> IF body.status = Absent /\ body.reason = Absent
                        THEN << >> ELSE block ]

\* Python truthiness of an Optional[str]
Truthy(x) == x # None /\ x # ""

\* ------------------------------------------------------------ fingerprint
\* stable_payload with the cause text left in the compared fields
stable_payload_WithReason(info) ==
    [ address |-> info.address, reason |-> info.reason, start_dt |-> info.start_dt,
      restore_dt |-> info.restore_dt, restore_raw |-> info.restore_raw ]

\* stable_payload without the raw restore text
stable_payload_NoRaw(info) ==
    [ address |-> info.address, start_dt |-> info.start_dt,
      restore_dt |-> info.restore_dt ]

stable_payload(info) ==
    [ address |-> info.address, start_dt |-> info.start_dt,
      restore_dt |-> info.restore_dt, restore_raw |-> info.restore_raw ]

\* json.dumps(payload, sort_keys=True): the pairs of the keys the payload
\* holds, in the sorted order of the keys
dumps(payload) ==
    LET pair(k) == IF k \in DOMAIN payload THEN << k, payload[k] >> ELSE << >>
    IN  pair("address") \o pair("reason") \o pair("restore_dt")
        \o pair("restore_raw") \o pair("start_dt") \o pair("status_line")

\* sha256 of the serialisation, taken as injective
fingerprint(payload) == << "sha256" >> \o dumps(payload)

NoFingerprint == << >>
NO_OUTAGE == << "NO_OUTAGE" >>

IsDigest(fp) == Len(fp) > 0 /\ fp[1] = "sha256"


\* --------------------------------------------------------------- messages
Line(cond, l) == IF cond THEN << l >> ELSE << >>

format_message(info) ==
    << << "DTEK - zmina statusu" >>, << "Omieha" >> >>
    \o Line(Truthy(info.status_line), << info.status_line >>)
    \o Line(Truthy(info.reason), << "Prychyna:", info.reason >>)
    \o Line(Truthy(info.start_dt), << "Chas pochatku:", info.start_dt >>)
    \o Line(Truthy(info.restore_dt), << "Oriientovne vidnovlennia:", info.restore_dt >>)
    \o Line(~Truthy(info.restore_dt) /\ Truthy(info.restore_raw),
            << "Oriientovne vidnovlennia:", info.restore_raw >>)
    \o << << "Perevireno:", "utcnow" >> >>

format_restored_message(addr, start_dt, restore_dt, restore_raw) ==
    LET start_part == IF Truthy(start_dt) THEN start_dt ELSE "nevidomo"
        end_part == IF Truthy(restore_dt) THEN restore_dt
                    ELSE IF Truthy(restore_raw) THEN restore_raw ELSE "nevidomo"
    IN  << << "Svitlo ziavylosia." >>,
           << "Adresa:", addr >>,
           << "Svitla ne bulo:", start_part, end_part >> >>

NoText == << >>

\* ----------------------------------------------------------------- errors
\* An exception is the sequence of the words of str(e).
NoError == << >>

\* playwright TimeoutError of a wait_for_selector / click
FetchTimeout == << "Timeout", "20000ms", "exceeded." >>
\* playwright Error of page.goto
FetchNavigation == << "Page.goto", "net::", "ERR_CONNECTION_RESET" >>
\* RuntimeError of pick_from_autocomplete
EmptyAutocomplete == << "Empty", "autocomplete", "list", "for", "#city", "query" >>
\* RuntimeError of _fetch_outage_info_once
AntibotError == << "Antibot", "captcha", "page", "returned", "by", "DTEK", "site." >>

BrowserErrors == { FetchTimeout, FetchNavigation, EmptyAutocomplete }

\* requests.exceptions.ReadTimeout of requests.post(..., timeout=25)
ChannelTimeout == << "Read", "timed out", "read", "timeout" >>
\* requests.exceptions.HTTPError of r.raise_for_status()
ChannelForbidden == << "403", "Client", "Error", "Forbidden", "for", "url" >>
\* RuntimeError(f"Telegram API error: {data}")
ChannelNotOk == << "Telegram", "API", "error", "Bad", "Request", "chat not found" >>

ChannelErrors == { ChannelTimeout, ChannelForbidden, ChannelNotOk }

\* AttributeError of prev.get(...) when state.json holds a list, a number or null
NotADict == << "object", "has", "no", "attribute", "get" >>

TransientWords ==
    { "antibot", "captcha", "access denied", "forbidden", "timeout", "timed out",
      "net::", "navigation", "request unsuccessful" }

\* any(x in str(e).lower() for x in [...])
Transient(e) == \E i \in 1..Len(e) : Lower(e[i]) \in TransientWords

\* antibot list of _fetch_outage_info_once
antibot == { "incapsula", "access denied", "forbidden", "captcha", "request unsuccessful" }

\* the marker test without .lower()
IsAntibotBody_CaseSensitive(body) == body.marker # Absent /\ body.marker \in antibot

\* any(x in body_text.lower() for x in antibot)
IsAntibotBody(body) == body.marker # Absent /\ Lower(body.marker) \in antibot

is_disclaimer_page(body) ==
    body.disclaimer # Absent /\ ReplaceNbsp(body.disclaimer) \in DISCLAIMER_MARKERS

\* ------------------------------------------------------------- state.json
\* kind: "absent" (no file), "garbage" (not JSON), "nondict" (JSON, not an
\* object), "dict".
StateDict(fp, message_id, start_dt, restore_dt, restore_raw) ==
    [ kind |-> "dict", fingerprint |-> fp, message_id |-> message_id,
      last_outage_start |-> start_dt, last_outage_restore |-> restore_dt,
      last_outage_restore_raw |-> restore_raw ]

EmptyDict == StateDict(NoFingerprint, NoMessageId, None, None, None)

FileOfKind(k) == [ EmptyDict EXCEPT !.kind = k ]

load_state(f) ==
    IF f.kind \in {"absent", "garbage"} THEN EmptyDict ELSE f

\* ------------------------------------------------------- decisions of main
\* no_outage_now without the disclaimer test
no_outage_now_FieldsOnly(body, info) ==
    ~Truthy(info.start_dt) /\ ~Truthy(info.restore_dt) /\ ~Truthy(info.restore_raw)

no_outage_now(body, info) ==
    is_disclaimer_page(body)
    \/ (~Truthy(info.start_dt) /\ ~Truthy(info.restore_dt) /\ ~Truthy(info.restore_raw))

had_outage_before(p) ==
    Truthy(p.last_outage_start) \/ Truthy(p.last_outage_restore)
    \/ Truthy(p.last_outage_restore_raw)

\* the restored message built from the fields of the current page
RestoredMessage_FromPage(p, info) ==
    format_restored_message(info.address, info.start_dt, info.restore_dt,
                            info.restore_raw)

\* the message of the restored branch
RestoredMessage(p, info) ==
    format_restored_message(info.address, p.last_outage_start,
                            p.last_outage_restore, p.last_outage_restore_raw)

\* the restored branch forgetting to clear the remembered window
RestoredState_KeepsWindow(p) ==
    StateDict(NO_OUTAGE, p.message_id, p.last_outage_start, p.last_outage_restore,
              p.last_outage_restore_raw)

\* the restored branch saving no message_id
RestoredState_DropsHandle(p) ==
    StateDict(NO_OUTAGE, NoMessageId, None, None, None)

\* the state saved by the restored branch; p is prev, read for message_id
RestoredState(p) ==
    StateDict(NO_OUTAGE, p.message_id, None, None, None)

\* the baseline branch saving the fingerprint without the window
BaselineState_NoWindow(fp, last_message_id, info) ==
    StateDict(fp, last_message_id, None, None, None)

\* the state saved by the baseline branch
BaselineState(fp, last_message_id, info) ==
    StateDict(fp, last_message_id, info.start_dt, info.restore_dt, info.restore_raw)

\* the change branch saving the window without the raw restore text
UpdatedState_NoRaw(fp, message_id, info) ==
    StateDict(fp, message_id, info.start_dt, info.restore_dt, None)

\* the state saved by the change branch
UpdatedState(fp, message_id, info) ==
    StateDict(fp, message_id, info.start_dt, info.restore_dt, info.restore_raw)

\* Where main goes once the page is fetched
\* Branch taking "NO_OUTAGE" for a first run
Branch_NoOutageIsBaseline(p, body, info) ==
    LET fp == fingerprint(stable_payload(info))
    IN  IF no_outage_now(body, info)
        THEN IF had_outage_before(p) THEN "restored" ELSE "nothing"
        ELSE IF p.fingerprint \in {NoFingerprint, NO_OUTAGE} THEN "baseline"
        ELSE IF fp = p.fingerprint THEN "nochange"
        ELSE IF p.message_id # NoMessageId THEN "edit"
        ELSE "send"

Branch(p, body, info) ==
    LET fp == fingerprint(stable_payload(info))
    IN  IF no_outage_now(body, info)
        THEN IF had_outage_before(p) THEN "restored" ELSE "nothing"
        ELSE IF p.fingerprint = NoFingerprint THEN "baseline"
        ELSE IF fp = p.fingerprint THEN "nochange"
        ELSE IF p.message_id # NoMessageId THEN "edit"
        ELSE "send"


\* ------------------------------------------------------------------ state
VARIABLES
    file,       \* content of state.json
    nextId,     \* message_id the channel gives to the next message it accepts
    address,    \* f"m. {city}, vul. {street}, {house}" of the deployment
    pc,         \* position of the run: idle, fetch, decide, send_restored, edit, send, except, done
    prev,       \* main: prev = load_state()
    attempt,    \* fetch_outage_info: attempt
    last_err,   \* fetch_outage_info: last_err
    body,       \* main: body_text
    branch,     \* the branch of main the run took
    err,        \* the exception propagating out of main()
    exitCode,   \* exit status of the process: -1 while it runs
    log,        \* calls made by the run, in order: fetch (the one that returned), edit, send, save
    fetchErrs,  \* fetch_outage_info: the failed attempts of the call in progress
    file0,      \* content of state.json when the run started
    hist,       \* restored notice since the last active-outage run: none, tried, delivered
    later,      \* hist as the run found it, when it classified the page as no outage
    TELEGRAM_BOT_TOKEN, \* main: tg_token is set (os.getenv gave a non-empty value)
    TELEGRAM_CHAT_ID,   \* main: tg_chat_id is set
    r1, r2,     \* two outage records handed to stable_payload / fingerprint
    fp1, fp2,   \* their fingerprints, once computed
    chat,       \* the messages the channel holds, by message_id: what each one shows
    lastAlert,  \* message_id of the message showing the latest change alert, 0 if none
    restoredFrom \* the fingerprint the restored transition replaced, in the runs that follow it

vars == << file, nextId, address, pc, prev, attempt, last_err, body, branch, err,
           exitCode, log, fetchErrs, file0, hist, later,
           TELEGRAM_BOT_TOKEN, TELEGRAM_CHAT_ID, r1, r2, fp1, fp2,
           chat, lastAlert, restoredFrom >>

Entry(op, kind, ok, handle, text, raised) ==
    [ op |-> op, kind |-> kind, ok |-> ok, handle |-> handle, text |-> text,
      raised |-> raised ]

SaveEntry == Entry("save", "", TRUE, NoMessageId, NoText, NoError)

Info == parse_outage_from_page_text(body, address)

RunInit ==
    /\ file \in { FileOfKind("absent"), FileOfKind("garbage"), FileOfKind("nondict") }
    /\ nextId = 1
    /\ address \in Addresses
    /\ pc = "idle"
    /\ prev = EmptyDict
    /\ attempt = 1
    /\ last_err = NoError
    /\ body = NoBody
    /\ branch = ""
    /\ err = NoError
    /\ exitCode = -1
    /\ log = << >>
    /\ fetchErrs = << >>
    /\ file0 = file
    /\ hist = "none"
    /\ later = "none"
    /\ TELEGRAM_BOT_TOKEN = TRUE
    /\ TELEGRAM_CHAT_ID = TRUE
    /\ chat = << >>
    /\ lastAlert = NoMessageId
    /\ restoredFrom = NoFingerprint

\* OutageInfo(address=...): every other field None
NoInfo == parse_outage_from_page_text(NoBody, "")

Init ==
    /\ RunInit
    /\ r1 = NoInfo /\ r2 = NoInfo
    /\ fp1 = NoFingerprint /\ fp2 = NoFingerprint

\* ---------------------------------------------------------------- actions
\* the credentials check testing the token alone
Start_TokenOnly(tg_token, tg_chat_id) ==
    /\ pc \in {"idle", "done"}
    /\ nextId <= MaxMsgs
    /\ attempt' = 1
    /\ last_err' = NoError
    /\ body' = NoBody
    /\ branch' = ""
    /\ log' = << >>
    /\ fetchErrs' = << >>
    /\ file0' = file
    /\ later' = "none"
    /\ TELEGRAM_BOT_TOKEN' = tg_token
    /\ TELEGRAM_CHAT_ID' = tg_chat_id
    /\ IF ~tg_token
       THEN \* raise SystemExit("Missing ..."): not an Exception, exit status 1
            /\ pc' = "done"
            /\ exitCode' = 1
            /\ prev' = EmptyDict
            /\ err' = NoError
       ELSE /\ prev' = load_state(file)
            /\ exitCode' = -1
            /\ IF prev'.kind = "dict"
               THEN pc' = "fetch" /\ err' = NoError
               ELSE pc' = "except" /\ err' = NotADict
    /\ restoredFrom' = IF file.fingerprint = NO_OUTAGE THEN restoredFrom ELSE NoFingerprint
    /\ UNCHANGED << file, nextId, address, hist,
                    r1, r2, fp1, fp2,
                    chat, lastAlert >>

\* python check_once.py: main() up to the first fetch attempt
Start(tg_token, tg_chat_id) ==
    /\ pc \in {"idle", "done"}
    /\ nextId <= MaxMsgs
    /\ attempt' = 1
    /\ last_err' = NoError
    /\ body' = NoBody
    /\ branch' = ""
    /\ log' = << >>
    /\ fetchErrs' = << >>
    /\ file0' = file
    /\ later' = "none"
    /\ TELEGRAM_BOT_TOKEN' = tg_token
    /\ TELEGRAM_CHAT_ID' = tg_chat_id
    /\ IF ~tg_token \/ ~tg_chat_id
       THEN \* raise SystemExit("Missing ..."): not an Exception, exit status 1
            /\ pc' = "done"
            /\ exitCode' = 1
            /\ prev' = EmptyDict
            /\ err' = NoError
       ELSE /\ prev' = load_state(file)
            /\ exitCode' = -1
            /\ IF prev'.kind = "dict"
               THEN pc' = "fetch" /\ err' = NoError
               ELSE pc' = "except" /\ err' = NotADict
    /\ restoredFrom' = IF file.fingerprint = NO_OUTAGE THEN restoredFrom ELSE NoFingerprint
    /\ UNCHANGED << file, nextId, address, hist,
                    r1, r2, fp1, fp2,
                    chat, lastAlert >>

\* fetch_outage_info keeping the first error instead of the last
AttemptFailed_RaisesFirst(b, e) ==
    /\ last_err' = IF last_err = NoError THEN e ELSE last_err
    /\ fetchErrs' = Append(fetchErrs, [ marker |-> b.marker, raised |-> e ])
    /\ IF attempt < MaxAttempts
       THEN attempt' = attempt + 1 /\ pc' = "fetch" /\ err' = NoError
       ELSE attempt' = attempt /\ pc' = "except" /\ err' = last_err'
    /\ UNCHANGED << file, nextId, address, prev, body, branch, exitCode, log,
                    file0, hist, later,
                    TELEGRAM_BOT_TOKEN, TELEGRAM_CHAT_ID,
                    r1, r2, fp1, fp2,
                    chat, lastAlert, restoredFrom >>

\* an attempt of fetch_outage_info ends with exception e
AttemptFailed(b, e) ==
    /\ last_err' = e
    /\ fetchErrs' = Append(fetchErrs, [ marker |-> b.marker, raised |-> e ])
    /\ IF attempt < MaxAttempts
       THEN attempt' = attempt + 1 /\ pc' = "fetch" /\ err' = NoError
       ELSE attempt' = attempt /\ pc' = "except" /\ err' = last_err'
    /\ UNCHANGED << file, nextId, address, prev, body, branch, exitCode, log,
                    file0, hist, later,
                    TELEGRAM_BOT_TOKEN, TELEGRAM_CHAT_ID,
                    r1, r2, fp1, fp2,
                    chat, lastAlert, restoredFrom >>

\* _fetch_outage_info_once raises out of the browser session
FetchRaises(e) ==
    /\ pc = "fetch"
    /\ AttemptFailed(NoBody, e)

\* _fetch_outage_info_once reads body text b
FetchBody(b) ==
    /\ pc = "fetch"
    /\ IF IsAntibotBody(b)
       THEN AttemptFailed(b, AntibotError)
       ELSE /\ body' = b
            /\ pc' = "decide"
            /\ log' = Append(log, Entry("fetch", "", TRUE, attempt, NoText, NoError))
            \* return: the locals of fetch_outage_info are gone
            /\ attempt' = 1
            /\ last_err' = NoError
            /\ fetchErrs' = << >>
            /\ UNCHANGED << file, nextId, address, prev, branch, err, exitCode,
                            file0, hist, later,
                            TELEGRAM_BOT_TOKEN, TELEGRAM_CHAT_ID,
                            r1, r2, fp1, fp2,
                            chat, lastAlert, restoredFrom >>

\* main from the classification of the page to the next channel call or return
Decide ==
    /\ pc = "decide"
    /\ LET info == Info
           fp == fingerprint(stable_payload(info))
           br == Branch(prev, body, info)
       IN  /\ branch' = br
           /\ later' = IF br \in {"restored", "nothing"} THEN hist ELSE "none"
           /\ hist' = IF br \in {"restored", "nothing"} THEN hist ELSE "none"
           /\ CASE br = "restored" ->
                     pc' = "send_restored" /\ UNCHANGED << file, log, exitCode >>
                [] br = "edit" ->
                     pc' = "edit" /\ UNCHANGED << file, log, exitCode >>
                [] br = "send" ->
                     pc' = "send" /\ UNCHANGED << file, log, exitCode >>
                [] br = "baseline" ->
                     /\ file' = BaselineState(fp, prev.message_id, info)
                     /\ log' = Append(log, SaveEntry)
                     /\ pc' = "done" /\ exitCode' = 0
                [] OTHER ->
                     pc' = "done" /\ exitCode' = 0 /\ UNCHANGED << file, log >>
    /\ UNCHANGED << nextId, address, prev, attempt, last_err, body, err, fetchErrs, file0,
                    TELEGRAM_BOT_TOKEN, TELEGRAM_CHAT_ID,
                    r1, r2, fp1, fp2,
                    chat, lastAlert, restoredFrom >>

\* send_telegram(restored_msg) returns, then save_state
\* SendRestoredOk storing the id of the restored notice as message_id
SendRestoredOk_AdoptsHandle ==
    /\ pc = "send_restored"
    /\ log' = log \o << Entry("send", "restored", TRUE, nextId,
                              RestoredMessage(prev, Info), NoError), SaveEntry >>
    /\ nextId' = nextId + 1
    /\ file' = [ RestoredState(prev) EXCEPT !.message_id = nextId ]
    /\ hist' = "delivered"
    /\ chat' = Append(chat, "restored")
    /\ restoredFrom' = prev.fingerprint
    /\ pc' = "done" /\ exitCode' = 0
    /\ UNCHANGED << address, prev, attempt, last_err, body, branch, err, fetchErrs, file0, later,
                    TELEGRAM_BOT_TOKEN, TELEGRAM_CHAT_ID,
                    r1, r2, fp1, fp2,
                    lastAlert >>

SendRestoredOk ==
    /\ pc = "send_restored"
    /\ log' = log \o << Entry("send", "restored", TRUE, nextId,
                              RestoredMessage(prev, Info), NoError), SaveEntry >>
    /\ nextId' = nextId + 1
    /\ file' = RestoredState(prev)
    /\ hist' = "delivered"
    /\ chat' = Append(chat, "restored")
    /\ restoredFrom' = prev.fingerprint
    /\ pc' = "done" /\ exitCode' = 0
    /\ UNCHANGED << address, prev, attempt, last_err, body, branch, err, fetchErrs, file0, later,
                    TELEGRAM_BOT_TOKEN, TELEGRAM_CHAT_ID,
                    r1, r2, fp1, fp2,
                    lastAlert >>

\* send_telegram(restored_msg) raises e
SendRestoredFails(e) ==
    /\ pc = "send_restored"
    /\ log' = Append(log, Entry("send", "restored", FALSE, NoMessageId,
                                RestoredMessage(prev, Info), e))
    /\ hist' = IF hist = "delivered" THEN hist ELSE "tried"
    /\ pc' = "except" /\ err' = e
    /\ UNCHANGED << file, nextId, address, prev, attempt, last_err, body, branch,
                    exitCode, fetchErrs, file0, later,
                    TELEGRAM_BOT_TOKEN, TELEGRAM_CHAT_ID,
                    r1, r2, fp1, fp2,
                    chat, lastAlert, restoredFrom >>

\* the edit branch falling through to the send after a successful edit
EditOk_ThenSends ==
    /\ pc = "edit"
    /\ log' = Append(log, Entry("edit", "change", TRUE, prev.message_id,
                                format_message(Info), NoError))
    /\ pc' = "send"
    /\ UNCHANGED << file, nextId, address, prev, attempt, last_err, body, branch,
                    err, exitCode, fetchErrs, file0, hist, later,
                    TELEGRAM_BOT_TOKEN, TELEGRAM_CHAT_ID,
                    r1, r2, fp1, fp2,
                    chat, lastAlert, restoredFrom >>

\* edit_telegram(int(last_message_id), msg) returns, then save_state
EditOk ==
    /\ pc = "edit"
    /\ LET info == Info
           message_id == prev.message_id
       IN  /\ log' = log \o << Entry("edit", "change", TRUE, prev.message_id,
                                     format_message(info), NoError), SaveEntry >>
           /\ file' = UpdatedState(fingerprint(stable_payload(info)), message_id, info)
    /\ chat' = [ chat EXCEPT ![prev.message_id] = "change" ]
    /\ lastAlert' = prev.message_id
    /\ UNCHANGED restoredFrom
    /\ pc' = "done" /\ exitCode' = 0
    /\ UNCHANGED << nextId, address, prev, attempt, last_err, body, branch, err,
                    fetchErrs, file0, hist, later,
                    TELEGRAM_BOT_TOKEN, TELEGRAM_CHAT_ID,
                    r1, r2, fp1, fp2 >>

\* edit_telegram raises e: caught, main goes on to send
EditFails(e) ==
    /\ pc = "edit"
    /\ log' = Append(log, Entry("edit", "change", FALSE, prev.message_id,
                                format_message(Info), e))
    /\ pc' = "send"
    /\ UNCHANGED << file, nextId, address, prev, attempt, last_err, body, branch,
                    err, exitCode, fetchErrs, file0, hist, later,
                    TELEGRAM_BOT_TOKEN, TELEGRAM_CHAT_ID,
                    r1, r2, fp1, fp2,
                    chat, lastAlert, restoredFrom >>

\* message_id = send_telegram(msg) returns, then save_state
SendOk ==
    /\ pc = "send"
    /\ LET info == Info
           message_id == nextId
       IN  /\ log' = log \o << Entry("send", "change", TRUE, message_id,
                                     format_message(info), NoError), SaveEntry >>
           /\ file' = UpdatedState(fingerprint(stable_payload(info)), message_id, info)
    /\ nextId' = nextId + 1
    /\ chat' = Append(chat, "change")
    /\ lastAlert' = nextId
    /\ UNCHANGED restoredFrom
    /\ pc' = "done" /\ exitCode' = 0
    /\ UNCHANGED << address, prev, attempt, last_err, body, branch, err,
                    fetchErrs, file0, hist, later,
                    TELEGRAM_BOT_TOKEN, TELEGRAM_CHAT_ID,
                    r1, r2, fp1, fp2 >>

\* the change branch saving the new state before the send that then raises e
SendFails_SavedFirst(e) ==
    /\ pc = "send"
    /\ log' = log \o << SaveEntry,
                         Entry("send", "change", FALSE, NoMessageId,
                               format_message(Info), e) >>
    /\ file' = UpdatedState(fingerprint(stable_payload(Info)), prev.message_id, Info)
    /\ pc' = "except" /\ err' = e
    /\ UNCHANGED << nextId, address, prev, attempt, last_err, body, branch,
                    exitCode, fetchErrs, file0, hist, later,
                    TELEGRAM_BOT_TOKEN, TELEGRAM_CHAT_ID,
                    r1, r2, fp1, fp2,
                    chat, lastAlert, restoredFrom >>

\* send_telegram(msg) raises e
SendFails(e) ==
    /\ pc = "send"
    /\ log' = Append(log, Entry("send", "change", FALSE, NoMessageId,
                                format_message(Info), e))
    /\ pc' = "except" /\ err' = e
    /\ UNCHANGED << file, nextId, address, prev, attempt, last_err, body, branch,
                    exitCode, fetchErrs, file0, hist, later,
                    TELEGRAM_BOT_TOKEN, TELEGRAM_CHAT_ID,
                    r1, r2, fp1, fp2,
                    chat, lastAlert, restoredFrom >>

\* __main__: except Exception as e
Handler ==
    /\ pc = "except"
    /\ exitCode' = IF Transient(err) THEN 0 ELSE 1
    /\ pc' = "done"
    /\ UNCHANGED << file, nextId, address, prev, attempt, last_err, body, branch,
                    err, log, fetchErrs, file0, hist, later,
                    TELEGRAM_BOT_TOKEN, TELEGRAM_CHAT_ID,
                    r1, r2, fp1, fp2,
                    chat, lastAlert, restoredFrom >>

Next ==
    \/ \E tg_token \in BOOLEAN, tg_chat_id \in BOOLEAN : Start(tg_token, tg_chat_id)
    \/ \E e \in BrowserErrors : FetchRaises(e)
    \/ \E b \in Bodies : FetchBody(b)
    \/ Decide
    \/ SendRestoredOk
    \/ \E e \in ChannelErrors : SendRestoredFails(e)
    \/ EditOk
    \/ \E e \in ChannelErrors : EditFails(e)
    \/ SendOk
    \/ \E e \in ChannelErrors : SendFails(e)
    \/ Handler

Spec == Init /\ [][Next]_vars


\* ------------------------------------------------------- reading the log
Sends == SelectSeq(log, LAMBDA x : x.op = "send")
Edits == SelectSeq(log, LAMBDA x : x.op = "edit")
Saves == SelectSeq(log, LAMBDA x : x.op = "save")
Notices == SelectSeq(log, LAMBDA x : x.op \in {"send", "edit"})

\* the run is over
Ended == pc = "done"
\* the run is over and main() returned
Returned == pc = "done" /\ err = NoError /\ exitCode = 0
\* the run got a page (so it classified it)
Fetched == branch # ""
\* the run classified the page as disclaimer-or-empty
ClassifiedNoOutage == branch \in {"restored", "nothing"}
\* the run calls neither send nor edit and does not touch state.json
Silent == Len(Notices) = 0 /\ Len(Saves) = 0 /\ file = file0

\* the three time fields of the page equal the remembered window
SameWindow ==
    /\ Info.start_dt = prev.last_outage_start
    /\ Info.restore_dt = prev.last_outage_restore
    /\ Info.restore_raw = prev.last_outage_restore_raw

\* ------------------------------------------------------------------ claims

\* C1 as stated: from a state whose fingerprint is the digest of an active
\* outage, every run of main() that returns and extracted the same four
\* fields sends nothing, edits nothing and writes nothing.
C1_AsStated ==
    (Returned /\ Fetched /\ IsDigest(prev.fingerprint) /\ SameWindow) => Silent

\* C1 amended: the same, for the runs whose page carries no disclaimer marker.
\* The state is then what it was, so the next such run starts from the same
\* state: any number of consecutive runs.
C1_UnchangedOutageIsSilent ==
    (Returned /\ Fetched /\ IsDigest(prev.fingerprint) /\ SameWindow
       /\ body.disclaimer = Absent)
    => (Silent /\ IsDigest(file.fingerprint))

C1_Witness ==
    /\ Returned /\ Fetched /\ IsDigest(prev.fingerprint) /\ SameWindow
    /\ body.disclaimer = Absent
    /\ prev.message_id # NoMessageId

\* C2 as stated: a run that classifies the page as disclaimer-or-empty while a
\* window is remembered sends exactly one restored notification, and every later
\* run that classifies the page so again, with no active-outage run in between,
\* sends nothing.
C2_AsStated ==
    /\ (Ended /\ ClassifiedNoOutage /\ had_outage_before(prev))
         => (Len(Sends) = 1 /\ Sends[1].kind = "restored" /\ Len(Edits) = 0)
    /\ (Ended /\ ClassifiedNoOutage /\ later # "none") => Len(Notices) = 0

\* C2 amended: such a run makes exactly one send, of the restored notification,
\* and once a restored send has succeeded every later run that classifies the
\* page so again, with no active-outage run in between, sends nothing.
C2_RestoredOncePerDelivery ==
    /\ (Ended /\ ClassifiedNoOutage /\ had_outage_before(prev))
         => (Len(Sends) = 1 /\ Sends[1].kind = "restored" /\ Len(Edits) = 0)
    /\ (Ended /\ ClassifiedNoOutage /\ later = "delivered") => Len(Notices) = 0

C2_Witness ==
    /\ Ended /\ ClassifiedNoOutage /\ later = "delivered"
    /\ prev.fingerprint = NO_OUTAGE /\ file0.kind = "dict"


\* the run got a page and classified it as an active outage
ActiveOutage ==
    /\ Fetched
    /\ body.disclaimer = Absent
    /\ (Info.start_dt # None \/ Info.restore_dt # None \/ Info.restore_raw \notin {None, ""})

\* the digest of the four fields of the page, written out
NewFingerprint ==
    << "sha256", "address", address, "restore_dt", Info.restore_dt,
       "restore_raw", Info.restore_raw, "start_dt", Info.start_dt >>

\* an initialized state and an active outage with another fingerprint
ChangeRun ==
    ActiveOutage /\ prev.fingerprint # NoFingerprint /\ prev.fingerprint # NewFingerprint

\* C3: in a change run with handle H, edit(H) is the first notification call; a
\* successful edit is followed by no send and H stays persisted; a failed edit is
\* followed by exactly one send, whose returned handle is persisted; with no
\* handle there is exactly one send, whose returned handle is persisted.  No run
\* has both a successful edit and a send.
C3_EditThenSend ==
    /\ (Ended /\ ChangeRun /\ prev.message_id # NoMessageId)
         => /\ Len(Edits) = 1
            /\ Notices[1].op = "edit"
            /\ Edits[1].handle = prev.message_id
            /\ Edits[1].ok => (Len(Sends) = 0 /\ file.message_id = prev.message_id)
            /\ ~Edits[1].ok =>
                  /\ Len(Sends) = 1
                  /\ Sends[1].ok => file.message_id = Sends[1].handle
    /\ (Ended /\ ChangeRun /\ prev.message_id = NoMessageId)
         => /\ Len(Edits) = 0
            /\ Len(Sends) = 1
            /\ Sends[1].ok => file.message_id = Sends[1].handle
    /\ ~(Len(Sends) > 0 /\ \E i \in 1..Len(Edits) : Edits[i].ok)

C3_Witness ==
    /\ Ended /\ ChangeRun /\ prev.message_id # NoMessageId
    /\ Len(Edits) = 1 /\ ~Edits[1].ok
    /\ Len(Sends) = 1 /\ Sends[1].ok
    /\ file.message_id = Sends[1].handle /\ file.message_id # prev.message_id

\* C4: a run that finds no persisted fingerprint and detects an active outage
\* sends nothing, edits nothing, and leaves the new fingerprint and the new
\* window in state.json.
C4_BaselineIsSilent ==
    (Ended /\ ActiveOutage /\ prev.fingerprint = NoFingerprint)
    => /\ Len(Notices) = 0
       /\ file.kind = "dict"
       /\ file.fingerprint = NewFingerprint
       /\ file.last_outage_start = Info.start_dt
       /\ file.last_outage_restore = Info.restore_dt
       /\ file.last_outage_restore_raw = Info.restore_raw

C4_Witness ==
    /\ Ended /\ ActiveOutage /\ prev.fingerprint = NoFingerprint
    /\ file0.kind = "garbage" /\ Info.restore_dt # None

\* C5: in the change branch and in the restored branch state.json is written
\* only after an edit or a send succeeded, and a run whose last notification call
\* failed leaves state.json as it found it.
C5_NoWriteBeforeDelivery ==
    (branch \in {"restored", "edit", "send"})
    => /\ \A i \in 1..Len(log) :
            log[i].op = "save"
            => \E j \in 1..(i - 1) : log[j].op \in {"send", "edit"} /\ log[j].ok
       /\ (file # file0) => Len(Saves) > 0
       /\ (Len(Notices) > 0 /\ ~Notices[Len(Notices)].ok)
            => (file = file0 /\ Len(Saves) = 0)

C5_Witness ==
    /\ Ended /\ branch = "edit"
    /\ Len(Notices) = 2 /\ ~Notices[1].ok /\ ~Notices[2].ok
    /\ file = file0

\* every attempt of the run returned a page with an anti-automation marker
AllBlocked ==
    /\ Len(fetchErrs) = MaxAttempts
    /\ \A i \in 1..Len(fetchErrs) : fetchErrs[i].marker # Absent

\* C6: a body with an anti-automation marker is never the page main() works on:
\* the attempt raises; a run whose attempts all return such a body sends nothing,
\* leaves state.json alone and exits 0.
C6_BlockedPageIsNotNoOutage ==
    /\ body.marker = Absent
    /\ \A i \in 1..Len(fetchErrs) :
          fetchErrs[i].marker # Absent => fetchErrs[i].raised # NoError
    /\ (Ended /\ AllBlocked) => (Len(Notices) = 0 /\ Silent /\ exitCode = 0)

C6_Witness ==
    /\ Ended /\ AllBlocked /\ had_outage_before(prev)
    /\ fetchErrs[1].marker = "Access Denied"

\* C7 as stated: a run that classifies the page as disclaimer-or-empty with no
\* window remembered sends nothing and leaves fingerprint "NO_OUTAGE" in
\* state.json, so after a run that returned the fingerprint is never absent.
C7_AsStated ==
    /\ (Returned /\ ClassifiedNoOutage /\ ~had_outage_before(prev))
         => (Len(Notices) = 0 /\ file.kind = "dict" /\ file.fingerprint = NO_OUTAGE)
    /\ (Returned /\ Fetched)
         => (file.kind = "dict" /\ file.fingerprint # NoFingerprint)

\* the value format_restored_message shows for x
Shown(x) == IF x \in {None, ""} THEN "nevidomo" ELSE x

\* C8: the window line of every restored notification holds the start and the
\* restore (else the raw restore) remembered in state.json before the run.
C8_RestoredQuotesRememberedWindow ==
    \A i \in 1..Len(log) :
        (log[i].op = "send" /\ log[i].kind = "restored")
        => log[i].text[3] =
             << "Svitla ne bulo:", Shown(file0.last_outage_start),
                IF Shown(file0.last_outage_restore) # "nevidomo"
                THEN file0.last_outage_restore
                ELSE Shown(file0.last_outage_restore_raw) >>

C8_Witness ==
    /\ Ended /\ Len(Sends) = 1 /\ Sends[1].kind = "restored" /\ Sends[1].ok
    /\ body.disclaimer # Absent
    /\ Info.start_dt # None /\ file0.last_outage_start = None
    /\ Info.restore_dt # None /\ file0.last_outage_restore = None

\* C9 as stated: a run whose three fetch attempts all fail with a timeout, a
\* navigation failure, an anti-automation block or an empty autocomplete list
\* exits 0, sends and edits nothing and leaves state.json alone.
C9_AsStated ==
    (Ended /\ Len(fetchErrs) = MaxAttempts)
    => (exitCode = 0 /\ Len(Notices) = 0 /\ Silent)

\* C10 as stated: a run whose send raised exits non-zero, whatever the error.
C10_AsStated ==
    (Ended /\ Len(Sends) > 0 /\ ~Sends[Len(Sends)].ok) => exitCode = 1


\* the fetch calls of the run that returned a page
Fetches == SelectSeq(log, LAMBDA x : x.op = "fetch")

\* C11: fetch_outage_info calls the underlying fetch at most 3 times; the first
\* attempt that returns ends the call (its number is the number of calls made);
\* an attempt that raises is followed by another while fewer than 3 were made;
\* after 3 failed attempts the error of the third propagates.
C11_ThreeAttemptsLastErrorRaised ==
    /\ Len(fetchErrs) <= MaxAttempts
    /\ Len(Fetches) <= 1
    /\ Len(Fetches) = 1
         => (Fetches[1].handle \in 1..MaxAttempts /\ Len(fetchErrs) = 0 /\ pc # "fetch")
    /\ pc = "fetch" => (attempt = Len(fetchErrs) + 1 /\ attempt <= MaxAttempts)
    /\ (Len(fetchErrs) > 0 /\ Len(fetchErrs) < MaxAttempts) => pc = "fetch"
    /\ Len(fetchErrs) = MaxAttempts
         => /\ pc \in {"except", "done"}
            /\ ~Fetched
            /\ err = fetchErrs[MaxAttempts].raised

C11_Witness ==
    /\ Ended /\ Len(fetchErrs) = MaxAttempts
    /\ fetchErrs[1].raised # fetchErrs[3].raised
    /\ fetchErrs[2].raised # fetchErrs[3].raised


\* C12 as stated: whatever state.json holds, unparseable text or JSON that is
\* not an object, the run takes it as absent state and goes on to the fetch; it
\* never ends with an error because of the content of the file.
C12_AsStated ==
    (Ended /\ TELEGRAM_BOT_TOKEN /\ TELEGRAM_CHAT_ID
       /\ file0.kind \in {"garbage", "nondict"})
    => /\ err # NotADict
       /\ prev = EmptyDict
       /\ (Fetched \/ Len(fetchErrs) = MaxAttempts)

\* a credential of the run is missing
CredentialMissing == ~TELEGRAM_BOT_TOKEN \/ ~TELEGRAM_CHAT_ID

\* C13: a run with a credential missing is over at once with exit status 1: no
\* fetch attempt, no send, no edit, state.json neither loaded nor written, and
\* the exit does not pass through the except clause.
C13_MissingCredentialIsFatal ==
    CredentialMissing
    => /\ pc = "done"
       /\ exitCode = 1
       /\ err = NoError
       /\ Len(log) = 0 /\ Len(fetchErrs) = 0 /\ ~Fetched
       /\ prev = EmptyDict
       /\ file = file0

C13_Witness ==
    /\ CredentialMissing /\ TELEGRAM_BOT_TOKEN /\ Ended
    /\ file0.kind = "dict" /\ had_outage_before(file0)


\* ------------------------------------------- the fingerprint, on its own
\* OutageInfo values
OutageInfos ==
    [ address : Addresses,
      status_line : { None, "Za vashoiu adresoiu vidsutnia elektroenerhiia" },
      reason : { None, "Avariini remonty" },
      start_dt : { None, "2024-03-05 14:30:00" },
      restore_dt : { None, "2024-03-05 18:00:00" },
      restore_raw : { None, "", "utochniuietsia", "18:00 05.03.2024" },
      raw_block : { << >>, << "Za vashoiu adresoiu vidsutnia elektroenerhiia" >> } ]

FpInit ==
    /\ RunInit
    /\ file = FileOfKind("absent")
    /\ address = "m. Odesa, vul. Krasnova, 1"
    /\ r1 \in OutageInfos /\ r2 \in OutageInfos
    /\ fp1 = NoFingerprint /\ fp2 = NoFingerprint

\* fp = fingerprint(stable_payload(info)), for each of the two records
ComputeFingerprints ==
    /\ fp1 = NoFingerprint
    /\ fp1' = fingerprint(stable_payload(r1))
    /\ fp2' = fingerprint(stable_payload(r2))
    /\ UNCHANGED << file, nextId, address, pc, prev, attempt, last_err, body, branch,
                    err, exitCode, log, fetchErrs, file0, hist, later,
                    TELEGRAM_BOT_TOKEN, TELEGRAM_CHAT_ID, r1, r2,
                    chat, lastAlert, restoredFrom >>

FpNext == ComputeFingerprints

FpSpec == FpInit /\ [][FpNext]_vars

\* the two records agree on the four compared fields
SameFourFields ==
    /\ r1.address = r2.address
    /\ r1.start_dt = r2.start_dt
    /\ r1.restore_dt = r2.restore_dt
    /\ r1.restore_raw = r2.restore_raw

\* C14: two records have equal fingerprints exactly when they agree on address,
\* start_dt, restore_dt and restore_raw; status_line, reason and raw_block do
\* not count.
C14_FingerprintOfFourFields ==
    fp1 # NoFingerprint => ((fp1 = fp2) <=> SameFourFields)

C14_Witness ==
    /\ fp1 # NoFingerprint /\ fp1 = fp2
    /\ r1.status_line # r2.status_line
    /\ r1.reason # r2.reason
    /\ r1.raw_block # r2.raw_block
    /\ r1.restore_raw = ""


\* the run sent the restored notice and the channel accepted it
RestoredDelivered ==
    Len(Sends) = 1 /\ Sends[1].kind = "restored" /\ Sends[1].ok

\* C15: the restored transition sets the fingerprint to "NO_OUTAGE" and clears
\* the three window fields; message_id stays what it was before the run, and is
\* not the id of the restored notice.
C15_RestoredKeepsHandle ==
    /\ RestoredDelivered
         => /\ file = [ file0 EXCEPT !.fingerprint = NO_OUTAGE,
                                     !.last_outage_start = None,
                                     !.last_outage_restore = None,
                                     !.last_outage_restore_raw = None ]
            /\ file.message_id = file0.message_id
            /\ file.message_id # Sends[1].handle
    /\ (branch = "restored" /\ ~RestoredDelivered) => file = file0

C15_Witness ==
    /\ Ended /\ RestoredDelivered
    /\ file0.message_id # NoMessageId
    /\ file0.last_outage_restore_raw # None

\* C16: a page with a disclaimer marker is classified as no outage whatever
\* time fields it carries: the run takes the restored or the no-action branch,
\* sends or edits no change alert and stores no new digest.
C16_DisclaimerWins ==
    (Fetched /\ body.disclaimer # Absent)
    => /\ branch \in {"restored", "nothing"}
       /\ Len(Edits) = 0
       /\ \A i \in 1..Len(log) : log[i].kind # "change"
       /\ file.fingerprint \in {file0.fingerprint, NO_OUTAGE}

C16_Witness ==
    /\ Ended /\ Fetched /\ body.disclaimer # Absent
    /\ Info.start_dt # None /\ Info.restore_dt # None
    /\ IsDigest(prev.fingerprint) /\ prev.fingerprint # NewFingerprint
    /\ prev.message_id # NoMessageId

\* C18: every state.json main() wrote: a digest comes with a window that has a
\* non-empty field and is the digest of the address and that window;
\* "NO_OUTAGE" comes with an empty window.
C18_StateIsCoherent ==
    file.kind = "dict"
    => /\ IsDigest(file.fingerprint)
            => /\ \/ file.last_outage_start \notin {None, ""}
                  \/ file.last_outage_restore \notin {None, ""}
                  \/ file.last_outage_restore_raw \notin {None, ""}
               /\ file.fingerprint =
                    << "sha256", "address", address,
                       "restore_dt", file.last_outage_restore,
                       "restore_raw", file.last_outage_restore_raw,
                       "start_dt", file.last_outage_start >>
       /\ file.fingerprint = NO_OUTAGE
            => /\ file.last_outage_start = None
               /\ file.last_outage_restore = None
               /\ file.last_outage_restore_raw = None
       /\ file.fingerprint # NoFingerprint

C18_Witness ==
    /\ file.kind = "dict" /\ IsDigest(file.fingerprint)
    /\ file.last_outage_restore_raw = ""
    /\ file.message_id # NoMessageId
    /\ file0.fingerprint = NO_OUTAGE


\* the run started from the state a restored transition wrote and got a page
\* that shows an active outage
OutageAfterRestored == prev.fingerprint = NO_OUTAGE /\ ActiveOutage

\* state.json holds the digest and the window of the page
MovedToNewOutage ==
    /\ file.fingerprint = NewFingerprint
    /\ file.last_outage_start = Info.start_dt
    /\ file.last_outage_restore = Info.restore_dt
    /\ file.last_outage_restore_raw = Info.restore_raw

\* C17 as stated: every run that starts from fingerprint "NO_OUTAGE" and detects
\* an active outage delivers an alert and leaves the new digest and the window
\* in state.json.
C17_AsStated ==
    (Ended /\ OutageAfterRestored)
    => /\ \E i \in 1..Len(Notices) : Notices[i].ok
       /\ MovedToNewOutage

\* C17 amended: such a run, the one whose four fields are those of the outage
\* before the restoration included, is never the unchanged or the baseline
\* case: it calls the channel with the alert, the edit of the retained handle
\* first and a send when there is no handle or the edit failed; when a call
\* succeeded state.json holds the new digest and the window, and when none did
\* state.json is what it was.
C17_OutageAfterRestoredAlerts ==
    (Ended /\ OutageAfterRestored)
    => /\ branch \in {"edit", "send"}
       /\ Len(Notices) >= 1
       /\ \A i \in 1..Len(Notices) : Notices[i].kind = "change"
       /\ prev.message_id # NoMessageId
            => (Notices[1].op = "edit" /\ Notices[1].handle = prev.message_id)
       /\ prev.message_id = NoMessageId => Notices[1].op = "send"
       /\ (Notices[1].op = "edit" /\ ~Notices[1].ok)
            => (Len(Notices) = 2 /\ Notices[2].op = "send")
       /\ (\E i \in 1..Len(Notices) : Notices[i].ok) => MovedToNewOutage
       /\ (\A i \in 1..Len(Notices) : ~Notices[i].ok) => file = file0

C17_Witness ==
    /\ Ended /\ OutageAfterRestored
    /\ NewFingerprint = restoredFrom
    /\ Len(Notices) = 1 /\ Notices[1].op = "edit" /\ Notices[1].ok
    /\ MovedToNewOutage

\* C19: a handle in state.json is never cleared; a run changes the handle only
\* in the change branch, when no edit succeeded and the send did, to the handle
\* that send returned; the handle in state.json is the message that shows the
\* latest change alert, never a restored notice.
C19_HandleIsLatestAlert ==
    /\ file0.message_id # NoMessageId => file.message_id # NoMessageId
    /\ file.message_id # file0.message_id
         => /\ branch \in {"edit", "send"}
            /\ \A i \in 1..Len(Edits) : ~Edits[i].ok
            /\ Len(Sends) = 1 /\ Sends[1].ok /\ Sends[1].kind = "change"
            /\ file.message_id = Sends[1].handle
    /\ file.message_id = lastAlert
    /\ file.message_id # NoMessageId
         => (file.message_id \in 1..Len(chat) /\ chat[file.message_id] = "change")

C19_Witness ==
    /\ Ended /\ file0.message_id # NoMessageId
    /\ file.message_id # file0.message_id
    /\ \E i \in 1..Len(chat) : chat[i] = "restored" /\ i > file0.message_id

=============================================================================
